---- MODULE Spec2Model ----
(***************************************************************************)
(* Generalised (r,b)-abacus, core, quotient and charges of a partition     *)
(* (src/abacus_extension.py), with the SageMath partition primitives the   *)
(* module calls modelled by what they compute.                             *)
(*                                                                         *)
(* Python lists are 0-indexed; sequences here are 1-indexed, so the code's *)
(* x[i] is written x[i + 1].  A partition is the sequence of its parts.    *)
(* A bit is 0 or 1; in the module's own convention 1 is a north step and   *)
(* 0 an east step.                                                         *)
(***************************************************************************)
EXTENDS Integers, Sequences, FiniteSets, TLC

\* ------------------------------------------------------------------ bounds
MaxSize == 10       \* largest size of a partition that is analysed
MaxR == 7           \* largest group order r of the analysis scenarios
MaxSynR == 3        \* largest group order r of the synthesis scenarios
MaxWireBits == 5    \* most symbols on all wires of a supplied abacus
MaxQSize == 2       \* largest total size of a supplied quotient
MaxCharge == 2      \* largest absolute value of a supplied charge
MaxCoreSize == 5    \* largest size of a partition supplied as core
MaxStepR == 3       \* largest group order r when the merge loop is unfolded
MaxStepBits == 4    \* most symbols on all wires of an abacus that is merged step by step
MaxStepCharge == 1  \* largest absolute value of a charge supplied to an unfolded call
MaxStepSize == 6    \* largest size of a partition whose G-core is computed step by step
MaxStepCoreSize == 3 \* largest size of a core supplied to an unfolded from_G_core_and_quotient
MaxIterations == 60 \* passes of the merge loop after which a run is no longer followed
MaxMergeR == 3      \* largest group order r when termination of the merge loop is checked
MaxWalkSize == 6    \* largest size of a partition whose abacus is built and merged step by step
MaxWalkR == 4       \* largest group order r when G_abacus is unfolded
MaxShiftSize == 6   \* largest size of a partition analysed with b and with b + k*r
MaxShiftR == 5      \* largest group order r when b is replaced by b + k*r
MaxShift == 2       \* largest absolute value of the multiple k of r added to b
MaxShiftWires == 2  \* largest number of wires of an abacus merged with b and with b + k*r
MaxShiftBits == 3   \* most symbols on all wires of such an abacus
MaxNorthSteps == 16 \* longest path of north steps that is put on an abacus
MaxMergeBits == 3   \* most symbols on all wires when termination of the merge loop is checked

\* ------------------------------------------------------------ Python glue
RECURSIVE SumSeq(_)
SumSeq(s) == IF s = <<>> THEN 0 ELSE s[1] + SumSeq(Tail(s))

RECURSIVE MaxSeq(_)
MaxSeq(s) == IF Len(s) = 1 THEN s[1]
             ELSE LET m == MaxSeq(Tail(s)) IN IF s[1] >= m THEN s[1] ELSE m

\* [x] * k : the empty list when k <= 0
Repl(x, k) == [i \in 1..k |-> x]

Abs(x) == IF x < 0 THEN -x ELSE x

RECURSIVE Euclid(_, _)
Euclid(x, y) == IF y = 0 THEN x ELSE Euclid(y, x % y)

\* sage.arith gcd: the non-negative greatest common divisor
gcd(x, y) == Euclid(Abs(x), Abs(y))

\* A returned value, or the exception that ended the call
Ok(v) == [err |-> "none", val |-> v]
Raise(e) == [err |-> e, val |-> <<>>]
NotCalled == [err |-> "not called", val |-> <<>>]
Returned(res) == res.err = "none"

\* ------------------------------------------------- SageMath Partition API
RECURSIVE StripZeros(_)
\* Partition.__init__ drops trailing zero parts
StripZeros(mu) ==
    IF mu # <<>> /\ mu[Len(mu)] = 0 THEN StripZeros(SubSeq(mu, 1, Len(mu) - 1))
    ELSE mu

\* Partition.zero_one_sequence: the rim from south-west to north-east,
\* 1 an east step and 0 a north step, without leading 0s and trailing 1s
zero_one_sequence(p) ==
    IF p = <<>> THEN <<>>
    ELSE LET n == Len(p)
             tmp == {p[i + 1] - i : i \in 0..(n - 1)}
         IN [k \in 1..(p[1] + n) |-> IF (k - n) \in tmp THEN 0 ELSE 1]

\* Partition(zero_one=seq): one part per 0, the number of 1s before it
from_zero_one(seq) ==
    LET idx == [k \in 1..Len(seq) |-> k - 1]
        tmp == SelectSeq(idx, LAMBDA t : seq[t + 1] = 0)
        m == Len(tmp)
    IN StripZeros([k \in 1..m |-> tmp[m - k + 1] - (m - k)])

\* Partition.conjugate, as the function giving the length of column j
conjugate(p, j) == Cardinality({i \in 1..Len(p) : p[i] > j})

\* Partition.upper_hook_lengths(alpha), entry of the cell (i, j)
upper_hook(p, i, j, alpha) == conjugate(p, j) - (i + 1) + alpha * (p[i + 1] - j)

Cells(p) == {c \in (0..(Len(p) - 1)) \X (0..(IF p = <<>> THEN 0 ELSE p[1] - 1)) :
                c[2] < p[c[1] + 1]}

RECURSIVE DyckLoop(_, _)
DyckLoop(copy_part, word) ==
    IF copy_part = <<>> THEN word
    ELSE LET c == copy_part[Len(copy_part)]
             rest == [i \in 1..(Len(copy_part) - 1) |-> copy_part[i] - c]
         IN DyckLoop(rest, word \o Repl(0, c) \o <<1>>)

\* the n that Partition.to_dyck_word() chooses when none is given
dyck_default_n(p) == MaxSeq([k \in 1..Len(p) |-> (k - 1) + p[k] + 1])

\* Partition.to_dyck_word(n): n 1s and n 0s, 1 a north step
to_dyck_word(p, n) ==
    IF p = <<>> THEN Repl(1, n) \o Repl(0, n)
    ELSE DyckLoop(p, Repl(1, n - Len(p))) \o Repl(0, n - p[1])

\* len(mu.to_dyck_word())
dyck_len(p) == IF p = <<>> THEN 0 ELSE Len(to_dyck_word(p, dyck_default_n(p)))

\* DyckWord(...) accepts a word only if it is balanced and no prefix has
\* more 0s than 1s
is_dyck_word(w) ==
    /\ \A k \in 1..Len(w) : 2 * SumSeq(SubSeq(w, 1, k)) >= k
    /\ 2 * SumSeq(w) = Len(w)

\* -------------------------------------------------------- abacus_extension
invert_zero_one(sequence) == [k \in 1..Len(sequence) |-> 1 - sequence[k]]

\* the colours with the remainder taking the sign of i + b*j, as a truncating
\* division leaves it
G_colour_tableau_truncated(p, r, b) ==
    [i \in 1..Len(p) |-> [j \in 1..p[i] |->
        LET v == (i - 1) + b * (j - 1)
        IN IF v >= 0 THEN v % r ELSE -((-v) % r)]]

\* the cell (i, j) has the colour (i + b*j) % r; Python's % takes the sign of r
G_colour_tableau(p, r, b) ==
    [i \in 1..Len(p) |-> [j \in 1..p[i] |-> ((i - 1) + b * (j - 1)) % r]]

\* counts[cell_colour] += 1 on a list of r entries: an index from -r to -1
\* counts from the end, any other index outside 0 .. r-1 is an IndexError
G_colour_count(p, r, b) ==
    LET tableau == G_colour_tableau(p, r, b)
        cells == {c \in (1..Len(p)) \X (1..(IF p = <<>> THEN 0 ELSE p[1])) : c[2] <= p[c[1]]}
        colour(c) == tableau[c[1]][c[2]]
        index(c) == IF colour(c) < 0 THEN colour(c) + r ELSE colour(c)
        counts == [k \in 1..r |-> Cardinality({c \in cells : index(c) = k - 1})]
    IN IF \E c \in cells : colour(c) < -r \/ colour(c) >= r
          THEN Raise("IndexError: list index out of range")
       ELSE IF SumSeq(counts) # SumSeq(p) THEN Raise("AssertionError: sum(counts) == self.size()")
       ELSE Ok(counts)

\* is_G_core with the sign of b lost: upper_hook_lengths(b) for upper_hook_lengths(-b)
is_G_core_sign_lost(p, r, b) ==
    ~ \E c \in Cells(p) : (upper_hook(p, c[1], c[2], b) % r) = 0

is_G_core(p, r, b) ==
    ~ \E c \in Cells(p) : (upper_hook(p, c[1], c[2], -b) % r) = 0

\* the loop body of G_abacus with a remainder that takes the sign of the
\* dividend; a negative index counts the wires from the last one
G_abacus_step_truncated(st, code, r, b) ==
    [abacus |-> [st.abacus EXCEPT ![(st.wire_num % r) + 1] = Append(@, code)],
     wire_num |-> LET v == st.wire_num + b * (1 - code) - code
                  IN IF v >= 0 THEN v % r ELSE -((-v) % r)]

\* the loop body of G_abacus with the two moves exchanged: -1 after a 0, +b after a 1
G_abacus_step_exchanged(st, code, r, b) ==
    [abacus |-> [st.abacus EXCEPT ![st.wire_num + 1] = Append(@, code)],
     wire_num |-> (st.wire_num + b * code - (1 - code)) % r]

\* G_abacus, one pass of the loop body: the symbol goes on the current wire
\* and the wire index moves by +b after a 0 and by -1 after a 1
G_abacus_step(st, code, r, b) ==
    [abacus |-> [st.abacus EXCEPT ![st.wire_num + 1] = Append(@, code)],
     wire_num |-> (st.wire_num + b * (1 - code) - code) % r]

RECURSIVE G_abacus_loop(_, _, _, _, _)
G_abacus_loop(seq, k, st, r, b) ==
    IF k > Len(seq) THEN st
    ELSE G_abacus_loop(seq, k + 1, G_abacus_step(st, seq[k], r, b), r, b)

\* the state of G_abacus when its loop starts
G_abacus_start(p, r) ==
    LET seq == invert_zero_one(zero_one_sequence(p))
    IN [abacus |-> Repl(<<>>, r), wire_num |-> SumSeq(seq) % r]

G_abacus(p, r, b) ==
    LET seq == invert_zero_one(zero_one_sequence(p))
    IN G_abacus_loop(seq, 1, G_abacus_start(p, r), r, b).abacus

\* the walk of a path started on wire 0 whatever its number of 1s
G_abacus_of_path_from_wire_0(seq, r, b) ==
    G_abacus_loop(seq, 1, [abacus |-> Repl(<<>>, r), wire_num |-> 0], r, b).abacus

\* the walk of G_abacus on a path sequence (lines 110 to 117): the symbols
\* are dealt onto r wires, from the wire sum(seq) % r on
G_abacus_of_path(seq, r, b) ==
    G_abacus_loop(seq, 1, [abacus |-> Repl(<<>>, r), wire_num |-> SumSeq(seq) % r], r, b).abacus

\* the reference numbers with the surplus handed out from wire 0 on: 0 <= i for 0 < i
expected_north_steps_from_wire_0(total_north_steps, r) ==
    [k \in 1..r |-> (total_north_steps \div r)
                    + (IF 0 <= k - 1 /\ k - 1 <= (total_north_steps % r) THEN 1 ELSE 0)]

\* the reference numbers of 1s per wire for total_north_steps 1s in all
expected_north_steps(total_north_steps, r) ==
    [k \in 1..r |-> (total_north_steps \div r)
                    + (IF 0 < k - 1 /\ k - 1 <= (total_north_steps % r) THEN 1 ELSE 0)]

\* the charges G_charges computes from an abacus (lines 166 to 178)
charges_of_abacus(abacus, r) ==
    LET total_north_steps == SumSeq([k \in 1..Len(abacus) |-> SumSeq(abacus[k])])
        expected == expected_north_steps(total_north_steps, r)
        charges == [k \in 1..Len(abacus) |-> expected[k] - SumSeq(abacus[k])]
    IN IF SumSeq(expected) # total_north_steps
          THEN Raise("AssertionError: sum(expected) == total_north_steps")
       ELSE IF SumSeq(charges) # 0 THEN Raise("AssertionError: sum(charges) == 0")
       ELSE Ok(charges)

G_charges(p, r, b) == charges_of_abacus(G_abacus(p, r, b), r)

\* sage PartitionTuple(p_list).  SageMath has no partition tuple of level 1:
\* PartitionTuple.__classcall_private__ ends with
\*     if len(mu) == 1: return _Partitions(mu[0])
\* so for one wire the value is the Partition itself (its len is its number
\* of parts and its items are integers); Partition.level() and
\* Partition.components() exist for this case.
PartitionTuple(p_list) ==
    IF Len(p_list) = 1 THEN [cls |-> "Partition", items |-> p_list[1]]
    ELSE [cls |-> "PartitionTuple", items |-> p_list]

\* a plain list (or tuple) of partitions, and the absent quotient
PyList(items) == [cls |-> "list", items |-> items]
None == [cls |-> "NoneType", items |-> <<>>]

\* the quotient read off an abacus with label_swap_xy ignored: never reflected
quotient_of_abacus_unreflected(abacus, label_swap_xy) ==
    PartitionTuple([k \in 1..Len(abacus) |-> from_zero_one(invert_zero_one(abacus[k]))])

\* the quotient G_quotient reads off an abacus (lines 148 to 154)
quotient_of_abacus(abacus, label_swap_xy) ==
    LET p_list == [k \in 1..Len(abacus) |-> from_zero_one(invert_zero_one(abacus[k]))]
        n == Len(p_list)
        swapped == [k \in 1..n |-> IF k = 1 THEN p_list[1] ELSE p_list[n - k + 2]]
    IN PartitionTuple(IF label_swap_xy THEN swapped ELSE p_list)

G_quotient(p, r, b, label_swap_xy) == quotient_of_abacus(G_abacus(p, r, b), label_swap_xy)

\* the loop body with pop for popleft: the symbol is taken from the right
\* end of the wire
from_G_abacus_step_pops_right(st, r, b) ==
    LET wire == st.abacus[st.wire_num + 1]
        code == IF Len(wire) > 0 THEN wire[Len(wire)] ELSE 0
    IN [abacus |-> IF Len(wire) > 0
                      THEN [st.abacus EXCEPT ![st.wire_num + 1] = SubSeq(@, 1, Len(@) - 1)]
                      ELSE st.abacus,
        path_seq |-> Append(st.path_seq, code),
        north_steps_read |-> st.north_steps_read + code,
        total_north_steps |-> st.total_north_steps,
        wire_num |-> (st.wire_num + b * (1 - code) - code) % r]

\* the loop body with the wire index moved only when a symbol was popped: the
\* walk stays on a wire it found empty
from_G_abacus_step_stays_on_empty(st, r, b) ==
    LET wire == st.abacus[st.wire_num + 1]
        code == IF Len(wire) > 0 THEN wire[1] ELSE 0
    IN [abacus |-> IF Len(wire) > 0
                      THEN [st.abacus EXCEPT ![st.wire_num + 1] = Tail(@)]
                      ELSE st.abacus,
        path_seq |-> Append(st.path_seq, code),
        north_steps_read |-> st.north_steps_read + code,
        total_north_steps |-> st.total_north_steps,
        wire_num |-> IF Len(wire) > 0 THEN (st.wire_num + b * (1 - code) - code) % r
                     ELSE st.wire_num]

\* from_G_abacus, one pass of the loop body
from_G_abacus_step(st, r, b) ==
    LET wire == st.abacus[st.wire_num + 1]
        code == IF Len(wire) > 0 THEN wire[1] ELSE 0
    IN [abacus |-> IF Len(wire) > 0
                      THEN [st.abacus EXCEPT ![st.wire_num + 1] = Tail(@)]
                      ELSE st.abacus,
        path_seq |-> Append(st.path_seq, code),
        north_steps_read |-> st.north_steps_read + code,
        total_north_steps |-> st.total_north_steps,
        wire_num |-> (st.wire_num + b * (1 - code) - code) % r]

\* from_G_abacus starting on wire 0 whatever the number of 1s
from_G_abacus_start_wire_0(abacus, r) ==
    LET total_north_steps == SumSeq([k \in 1..Len(abacus) |-> SumSeq(abacus[k])])
    IN [abacus |-> abacus,
        path_seq |-> <<>>,
        north_steps_read |-> 0,
        total_north_steps |-> total_north_steps,
        wire_num |-> 0]

\* the state of from_G_abacus when its loop starts
from_G_abacus_start(abacus, r) ==
    LET total_north_steps == SumSeq([k \in 1..Len(abacus) |-> SumSeq(abacus[k])])
    IN [abacus |-> abacus,
        path_seq |-> <<>>,
        north_steps_read |-> 0,
        total_north_steps |-> total_north_steps,
        wire_num |-> total_north_steps % r]

RECURSIVE from_G_abacus_loop(_, _, _)
from_G_abacus_loop(st, r, b) ==
    IF st.north_steps_read < st.total_north_steps
       THEN from_G_abacus_loop(from_G_abacus_step(st, r, b), r, b)
    ELSE st

\* from_G_abacus accepting only the representative of b with 0 < b < r, or
\* b = 0 when r = 1
from_G_abacus_b_reduced_only(abacus, r, b) ==
    IF gcd(r, b) # 1 \/ b < 0 \/ b >= r THEN Raise("AssertionError: gcd(r,b) == 1")
    ELSE Ok(from_zero_one(invert_zero_one(
                from_G_abacus_loop(from_G_abacus_start(abacus, r), r, b).path_seq)))

from_G_abacus(abacus, r, b) ==
    IF gcd(r, b) # 1 THEN Raise("AssertionError: gcd(r,b) == 1")
    ELSE Ok(from_zero_one(invert_zero_one(
                from_G_abacus_loop(from_G_abacus_start(abacus, r), r, b).path_seq)))

\* the abacus built with the sum of the charges never checked
abacus_of_charges_and_quotient_sum_unchecked(charges, quotient, r) ==
    IF Len(charges) # r THEN Raise("AssertionError: len(charges) == r")
    ELSE IF quotient.cls # "NoneType" /\ Len(quotient.items) # r
         THEN Raise("AssertionError: len(quotient) == r")
    ELSE IF quotient.cls = "Partition"
         THEN Raise("AttributeError: to_dyck_word")
    ELSE LET absent == quotient.cls = "NoneType"
             n == IF absent THEN 0
                  ELSE MaxSeq([k \in 1..r |-> dyck_len(quotient.items[k])]) \div 2
             words == IF absent THEN Repl(<<>>, r)
                      ELSE [k \in 1..r |-> to_dyck_word(quotient.items[k], n)]
             c_max == MaxSeq(charges)
             abacus == [k \in 1..r |-> Repl(1, c_max - charges[k]) \o words[k]]
         IN IF \E k \in 1..r : ~ is_dyck_word(words[k]) THEN Raise("ValueError: invalid Dyck word")
            ELSE IF SumSeq([k \in 1..r |-> Len(abacus[k])]) # r * (2 * n + c_max)
                 THEN Raise("AssertionError: total number of symbols")
            ELSE IF SumSeq([k \in 1..r |-> SumSeq(abacus[k])]) # r * (n + c_max)
                 THEN Raise("AssertionError: total number of 1s")
            ELSE Ok(abacus)

\* the abacus with the excess 1s added at the right end of each wire
abacus_of_charges_and_quotient_extend_right(charges, quotient, r) ==
    IF Len(charges) # r THEN Raise("AssertionError: len(charges) == r")
    ELSE IF SumSeq(charges) # 0 THEN Raise("AssertionError: sum(charges) == 0")
    ELSE IF quotient.cls # "NoneType" /\ Len(quotient.items) # r
         THEN Raise("AssertionError: len(quotient) == r")
    ELSE IF quotient.cls = "Partition"
         \* the items of a Partition are integers, which have no Dyck word
         THEN Raise("AttributeError: to_dyck_word")
    ELSE LET absent == quotient.cls = "NoneType"
             n == IF absent THEN 0
                  ELSE MaxSeq([k \in 1..r |-> dyck_len(quotient.items[k])]) \div 2
             words == IF absent THEN Repl(<<>>, r)
                      ELSE [k \in 1..r |-> to_dyck_word(quotient.items[k], n)]
             c_max == MaxSeq(charges)
             abacus == [k \in 1..r |-> words[k] \o Repl(1, c_max - charges[k])]
         IN IF \E k \in 1..r : ~ is_dyck_word(words[k]) THEN Raise("ValueError: invalid Dyck word")
            ELSE IF SumSeq([k \in 1..r |-> Len(abacus[k])]) # r * (2 * n + c_max)
                 THEN Raise("AssertionError: total number of symbols")
            ELSE IF SumSeq([k \in 1..r |-> SumSeq(abacus[k])]) # r * (n + c_max)
                 THEN Raise("AssertionError: total number of 1s")
            ELSE Ok(abacus)

\* the abacus from_G_charges_and_quotient builds and checks (lines 228 to
\* 252): the Dyck words of the quotient, each with c_max - charges[i] 1s
\* put in front
abacus_of_charges_and_quotient(charges, quotient, r) ==
    IF Len(charges) # r THEN Raise("AssertionError: len(charges) == r")
    ELSE IF SumSeq(charges) # 0 THEN Raise("AssertionError: sum(charges) == 0")
    ELSE IF quotient.cls # "NoneType" /\ Len(quotient.items) # r
         THEN Raise("AssertionError: len(quotient) == r")
    ELSE IF quotient.cls = "Partition"
         \* the items of a Partition are integers, which have no Dyck word
         THEN Raise("AttributeError: to_dyck_word")
    ELSE LET absent == quotient.cls = "NoneType"
             n == IF absent THEN 0
                  ELSE MaxSeq([k \in 1..r |-> dyck_len(quotient.items[k])]) \div 2
             words == IF absent THEN Repl(<<>>, r)
                      ELSE [k \in 1..r |-> to_dyck_word(quotient.items[k], n)]
             c_max == MaxSeq(charges)
             abacus == [k \in 1..r |-> Repl(1, c_max - charges[k]) \o words[k]]
         IN IF \E k \in 1..r : ~ is_dyck_word(words[k]) THEN Raise("ValueError: invalid Dyck word")
            ELSE IF SumSeq([k \in 1..r |-> Len(abacus[k])]) # r * (2 * n + c_max)
                 THEN Raise("AssertionError: total number of symbols")
            ELSE IF SumSeq([k \in 1..r |-> SumSeq(abacus[k])]) # r * (n + c_max)
                 THEN Raise("AssertionError: total number of 1s")
            ELSE Ok(abacus)

from_G_charges_and_quotient(charges, quotient, r, b) ==
    LET abacus == abacus_of_charges_and_quotient(charges, quotient, r)
    IN IF Returned(abacus) THEN from_G_abacus(abacus.val, r, b) ELSE abacus

\* G_core that keeps the quotient: for coprime r and b the partition itself
G_core_keeps_quotient(p, r, b) ==
    IF gcd(r, b) # 1 THEN Raise("AssertionError: gcd(r,b) == 1") ELSE Ok(p)

\* G_core with the sign of the charges lost: actual minus expected 1s
G_core_charges_negated(p, r, b) ==
    LET charges == G_charges(p, r, b)
    IN IF Returned(charges)
          THEN from_G_charges_and_quotient([k \in 1..r |-> -charges.val[k]], None, r, b)
       ELSE charges

G_core(p, r, b) ==
    LET charges == G_charges(p, r, b)
    IN IF Returned(charges) THEN from_G_charges_and_quotient(charges.val, None, r, b)
       ELSE charges

\* from_G_core_and_quotient with the two tests exchanged: an absent quotient
\* returns the core before the core is checked
from_G_core_and_quotient_shortcut_first(core, quotient, r, b) ==
    IF quotient.cls = "NoneType" THEN Ok(core)
    ELSE IF ~ is_G_core(core, r, b) THEN Raise("AssertionError: core.is_G_core(r, b)")
    ELSE LET charges == G_charges(core, r, b)
         IN IF Returned(charges) THEN from_G_charges_and_quotient(charges.val, quotient, r, b)
            ELSE charges

\* core is a PartitionExt here, so the isinstance assertion passes
from_G_core_and_quotient(core, quotient, r, b) ==
    IF ~ is_G_core(core, r, b) THEN Raise("AssertionError: core.is_G_core(r, b)")
    ELSE IF quotient.cls = "NoneType" THEN Ok(core)
    ELSE LET charges == G_charges(core, r, b)
         IN IF Returned(charges) THEN from_G_charges_and_quotient(charges.val, quotient, r, b)
            ELSE charges

\* arm and leg length and the hook length of the cell (i, j)
arm_length(p, i, j) == p[i + 1] - j - 1
leg_length(p, i, j) == conjugate(p, j) - i - 1
hook_length(p, i, j) == arm_length(p, i, j) + leg_length(p, i, j) + 1

\* the partition left when the rim hook of the cell (i, j) is removed: the
\* rows i .. i+leg take the next row's length less one, the last one length j
remove_rim_hook(p, i, j) ==
    LET last == i + leg_length(p, i, j)
    IN StripZeros([k \in 1..Len(p) |->
            IF k - 1 < i \/ k - 1 > last THEN p[k]
            ELSE IF k - 1 < last THEN p[k + 1] - 1
            ELSE j])

RECURSIVE classical_core(_, _)
\* Partition.core(length): rim hooks of that length are removed until none is left
classical_core(p, length) ==
    LET hooks == {c \in Cells(p) : hook_length(p, c[1], c[2]) = length}
    IN IF hooks = {} THEN p
       ELSE LET c == CHOOSE c \in hooks : TRUE
            IN classical_core(remove_rim_hook(p, c[1], c[2]), length)

\* Partition.quotient(length): the parts are padded with zeros to a multiple
\* of length (a whole block of zeros when the number of parts is one
\* already), the canonical vector is added, and for each residue e the
\* entries congruent to e are read from the last to the first and reduced
classical_quotient(p, length) ==
    LET remainder == Len(p) % length
        padded == p \o Repl(0, length - remainder)
        m == Len(padded)
        part == [i \in 1..m |-> padded[i] + m - i]
        from_last == [t \in 1..m |-> m - t + 1]
        reduced(e) ==
            LET sel == SelectSeq(from_last, LAMBDA i : part[i] % length = e)
                tmp == [t \in 1..Len(sel) |-> (part[sel[t]] - (e + (t - 1) * length)) \div length]
                a == SelectSeq(tmp, LAMBDA v : v # 0)
            IN [t \in 1..Len(a) |-> a[Len(a) - t + 1]]
    IN PartitionTuple([e \in 1..length |-> reduced(e - 1)])


\* ------------------------------------------------------------ the scenarios
\* A run is one scenario on one fixture (p, r, b): the calls of the scenario
\* are made in the order the test makes them, each result is kept in its own
\* variable, and an exception ends the scenario.  test_from_G_abacus,
\* test_from_G_core_and_quotient and test_special_core are the functions of
\* tests.py; test_from_G_charges_and_quotient is the test its docstring
\* names; test_is_G_core calls is_G_core on p and on p.G_core(r, b).
VARIABLES
    test,       \* the scenario that is running
    p,          \* the partition under analysis (a result: given, or synthesised)
    r,          \* the group order
    b,          \* the colour step
    arg,        \* the data a synthesis scenario starts from
    abacus,     \* result of p.G_abacus(r, b)
    charges,    \* result of p.G_charges(r, b)
    quotient,   \* result of p.G_quotient(r, b)
    core,       \* result of p.G_core(r, b)
    recon,      \* result of the reconstruction the scenario ends with
    classical,  \* result of p.core(r)
    is_core,    \* results of is_G_core on p and on its G-core
    classical_q,    \* result of p.quotient(r)
    colours,        \* result of p.G_colour_count(r, b)
    vacuum,         \* the abacus of a path of north steps only
    core_abacus,    \* result of p.G_core(r, b).G_abacus(r, b)
    core_charges,   \* result of p.G_core(r, b).G_charges(r, b)
    merge,          \* the loop of from_G_abacus, while a call of it is unfolded
    build,          \* the loop of G_abacus, while a call of it is unfolded
    shifted         \* results of the calls made with b + k*r for b

vars == <<test, p, r, b, arg, abacus, charges, quotient, core, recon, classical, is_core,
          classical_q, colours, vacuum, core_abacus, core_charges, merge, build, shifted>>

\* the results no scenario of tests.py asks for, and the unfolded loop
further == <<classical_q, colours, vacuum, core_abacus, core_charges, merge, build, shifted>>

RECURSIVE PartitionsOf(_, _)
\* the partitions of n with no part above largest
PartitionsOf(n, largest) ==
    IF n = 0 THEN {<<>>}
    ELSE UNION {{<<k>> \o q : q \in PartitionsOf(n - k, k)} :
                    k \in 1..(IF n < largest THEN n ELSE largest)}

\* sage Partitions(n)
Partitions(n) == PartitionsOf(n, n)

PartitionsUpTo(n) == UNION {Partitions(k) : k \in 0..n}

\* the colour steps tried with a group order: negative ones, 0, and ones
\* above the group order
BSet(order) == (-order)..(order + 1)

NoArg == [abacus |-> <<>>, charges |-> <<>>, quotient |-> None, core |-> <<>>]
NoQuotient == [err |-> "not called", val |-> None]
NoIsCore == [err |-> "not called", of_p |-> FALSE, of_core |-> FALSE]
NoVacuum == [err |-> "not called", total_north_steps |-> 0, val |-> <<>>]
\* no call of from_G_abacus is being unfolded
NoMerge == [at |-> "not called", iterations |-> 0, symbols |-> 0, shared |-> FALSE,
            st |-> from_G_abacus_start(<<>>, 1)]

\* no call of G_abacus is being unfolded
NoBuild == [at |-> "not called", seq |-> <<>>, wires |-> <<>>,
            st |-> [abacus |-> <<>>, wire_num |-> 0]]
\* no call has been made with a shifted b
NoResults == [colours |-> NotCalled, is_core |-> FALSE, abacus |-> <<>>,
              charges |-> NotCalled, quotient |-> None, quotient_swap_xy |-> None,
              core |-> NotCalled, from_abacus |-> NotCalled, from_charges |-> NotCalled]
\* nothing has been computed with b or with b + k*r
NoShifted == [at_b |-> FALSE, at_shift |-> FALSE, k |-> 0,
              with_b |-> NoResults, with_shift |-> NoResults]

Fresh ==
    /\ abacus = NotCalled
    /\ charges = NotCalled
    /\ quotient = NoQuotient
    /\ core = NotCalled
    /\ recon = NotCalled
    /\ classical = NotCalled
    /\ is_core = NoIsCore
    /\ classical_q = NoQuotient
    /\ colours = NotCalled
    /\ vacuum = NoVacuum
    /\ core_abacus = NotCalled
    /\ core_charges = NotCalled
    /\ merge = NoMerge
    /\ build = NoBuild
    /\ shifted = NoShifted

AnalysisTests == {"test_from_G_abacus", "test_from_G_core_and_quotient",
                  "test_from_G_charges_and_quotient", "test_special_core", "test_is_G_core",
                  "test_special_quotient", "G_colour_count", "ground_state",
                  "analysis_of_G_core"}

\* the colour steps of the classical case: the default -1 and r - 1
SpecialTests == {"test_special_core", "test_special_quotient"}

Init ==
    /\ test \in AnalysisTests
    /\ r \in 1..MaxR
    /\ b \in (IF test \in SpecialTests THEN {-1, r - 1} ELSE BSet(r))
    /\ p \in (IF test = "ground_state" THEN {Ok(<<>>)}
              ELSE {Ok(mu) : mu \in PartitionsUpTo(MaxSize)})
    /\ arg = NoArg
    /\ Fresh

\* p.G_abacus(r, b)
CallGAbacus ==
    /\ test = "test_from_G_abacus"
    /\ Returned(p) /\ abacus = NotCalled
    /\ abacus' = Ok(G_abacus(p.val, r, b))
    /\ UNCHANGED <<test, p, r, b, arg, charges, quotient, core, recon, classical, is_core>>
    /\ UNCHANGED further

\* p.G_charges(r, b)
CallGCharges ==
    /\ test \in {"test_from_G_charges_and_quotient", "from_G_abacus", "from_G_charges_and_quotient",
                 "G_core", "analysis_of_G_core"}
    /\ Returned(p) /\ charges = NotCalled
    /\ charges' = G_charges(p.val, r, b)
    /\ UNCHANGED <<test, p, r, b, arg, abacus, quotient, core, recon, classical, is_core>>
    /\ UNCHANGED further

\* p.G_core(r, b)
CallGCore ==
    /\ test \in {"test_from_G_core_and_quotient", "test_special_core", "test_is_G_core",
                 "from_G_core_and_quotient", "analysis_of_G_core"}
    /\ Returned(p) /\ core = NotCalled
    /\ core' = G_core(p.val, r, b)
    /\ UNCHANGED <<test, p, r, b, arg, abacus, charges, quotient, recon, classical, is_core>>
    /\ UNCHANGED further

\* p.G_quotient(r, b), after the scenario's first call has returned
CallGQuotient ==
    /\ \/ test \in {"test_from_G_core_and_quotient", "from_G_core_and_quotient"} /\ Returned(core)
       \/ test \in {"test_from_G_charges_and_quotient", "from_G_abacus",
                    "from_G_charges_and_quotient", "G_core"} /\ Returned(charges)
    /\ Returned(p) /\ quotient = NoQuotient
    /\ quotient' = [err |-> "none", val |-> G_quotient(p.val, r, b, FALSE)]
    /\ UNCHANGED <<test, p, r, b, arg, abacus, charges, core, recon, classical, is_core>>
    /\ UNCHANGED further

\* from_G_abacus(p.G_abacus(r, b), r, b)
CallFromGAbacus ==
    /\ test = "test_from_G_abacus"
    /\ Returned(abacus) /\ recon = NotCalled
    /\ recon' = from_G_abacus(abacus.val, r, b)
    /\ UNCHANGED <<test, p, r, b, arg, abacus, charges, quotient, core, classical, is_core>>
    /\ UNCHANGED further

\* from_G_core_and_quotient(p.G_core(r, b), p.G_quotient(r, b), r, b)
CallFromGCoreAndQuotient ==
    /\ test = "test_from_G_core_and_quotient"
    /\ Returned(core) /\ Returned(quotient) /\ recon = NotCalled
    /\ recon' = from_G_core_and_quotient(core.val, quotient.val, r, b)
    /\ UNCHANGED <<test, p, r, b, arg, abacus, charges, quotient, core, classical, is_core>>
    /\ UNCHANGED further

\* from_G_charges_and_quotient(p.G_charges(r, b), p.G_quotient(r, b), r, b)
CallFromGChargesAndQuotient ==
    /\ test = "test_from_G_charges_and_quotient"
    /\ Returned(charges) /\ Returned(quotient) /\ recon = NotCalled
    /\ recon' = from_G_charges_and_quotient(charges.val, quotient.val, r, b)
    /\ UNCHANGED <<test, p, r, b, arg, abacus, charges, quotient, core, classical, is_core>>
    /\ UNCHANGED further

\* p.is_G_core(r, b) and p.G_core(r, b).is_G_core(r, b)
CallIsGCore ==
    /\ test = "test_is_G_core"
    /\ Returned(p) /\ Returned(core) /\ is_core = NoIsCore
    /\ is_core' = [err |-> "none", of_p |-> is_G_core(p.val, r, b),
                   of_core |-> is_G_core(core.val, r, b)]
    /\ UNCHANGED <<test, p, r, b, arg, abacus, charges, quotient, core, recon, classical>>
    /\ UNCHANGED further

\* p.core(r), the classical core the G-core is compared with
CallCore ==
    /\ test = "test_special_core"
    /\ Returned(p) /\ core # NotCalled /\ classical = NotCalled
    /\ classical' = Ok(classical_core(p.val, r))
    /\ UNCHANGED <<test, p, r, b, arg, abacus, charges, quotient, core, recon, is_core>>
    /\ UNCHANGED further

\* p.G_quotient(r, b, label_swap_xy=True)
CallGQuotientSwapXY ==
    /\ test = "test_special_quotient"
    /\ Returned(p) /\ quotient = NoQuotient
    /\ quotient' = [err |-> "none", val |-> G_quotient(p.val, r, b, TRUE)]
    /\ UNCHANGED <<test, p, r, b, arg, abacus, charges, core, recon, classical, is_core>>
    /\ UNCHANGED further

\* p.quotient(r), the classical quotient the G-quotient is compared with
CallQuotient ==
    /\ test = "test_special_quotient"
    /\ Returned(p) /\ quotient # NoQuotient /\ classical_q = NoQuotient
    /\ classical_q' = [err |-> "none", val |-> classical_quotient(p.val, r)]
    /\ UNCHANGED <<test, p, r, b, arg, abacus, charges, quotient, core, recon, classical, is_core>>
    /\ UNCHANGED <<colours, vacuum, core_abacus, core_charges, merge, build, shifted>>

\* p.G_colour_count(r, b)
CallGColourCount ==
    /\ test = "G_colour_count"
    /\ Returned(p) /\ colours = NotCalled
    /\ colours' = G_colour_count(p.val, r, b)
    /\ UNCHANGED <<test, p, r, b, arg, abacus, charges, quotient, core, recon, classical, is_core>>
    /\ UNCHANGED <<classical_q, vacuum, core_abacus, core_charges, merge, build, shifted>>

\* the reference state of G_charges: the walk of G_abacus on a path of
\* total_north_steps north steps and no east step
WalkNorthSteps ==
    /\ test = "ground_state" /\ vacuum = NoVacuum
    /\ \E total_north_steps \in 0..MaxNorthSteps :
          vacuum' = [err |-> "none", total_north_steps |-> total_north_steps,
                     val |-> G_abacus_of_path(Repl(1, total_north_steps), r, b)]
    /\ UNCHANGED <<test, p, r, b, arg, abacus, charges, quotient, core, recon, classical, is_core>>
    /\ UNCHANGED <<classical_q, colours, core_abacus, core_charges, merge, build, shifted>>

\* p.G_core(r, b).G_abacus(r, b)
CallGAbacusOfCore ==
    /\ test = "analysis_of_G_core"
    /\ Returned(core) /\ core_abacus = NotCalled
    /\ core_abacus' = Ok(G_abacus(core.val, r, b))
    /\ UNCHANGED <<test, p, r, b, arg, abacus, charges, quotient, core, recon, classical, is_core>>
    /\ UNCHANGED <<classical_q, colours, vacuum, core_charges, merge, build, shifted>>

\* p.G_core(r, b).G_charges(r, b)
CallGChargesOfCore ==
    /\ test = "analysis_of_G_core"
    /\ Returned(core) /\ core_abacus # NotCalled /\ core_charges = NotCalled
    /\ core_charges' = G_charges(core.val, r, b)
    /\ UNCHANGED <<test, p, r, b, arg, abacus, charges, quotient, core, recon, classical, is_core>>
    /\ UNCHANGED <<classical_q, colours, vacuum, core_abacus, merge, build, shifted>>

Next ==
    \/ CallGAbacus
    \/ CallGCharges
    \/ CallGCore
    \/ CallGQuotient
    \/ CallFromGAbacus
    \/ CallFromGCoreAndQuotient
    \/ CallFromGChargesAndQuotient
    \/ CallIsGCore
    \/ CallCore
    \/ CallGQuotientSwapXY
    \/ CallQuotient
    \/ CallGColourCount
    \/ WalkNorthSteps
    \/ CallGAbacusOfCore
    \/ CallGChargesOfCore

Spec == Init /\ [][Next]_vars

\* ------------------------------------------------- the synthesis scenarios
\* A synthesis scenario builds p from supplied data and then analyses it.
RECURSIVE BitSeqs(_)
\* the binary sequences of length n
BitSeqs(n) == IF n = 0 THEN {<<>>}
              ELSE {Append(w, c) : w \in BitSeqs(n - 1), c \in {0, 1}}

RECURSIVE Abaci(_, _)
\* the abaci of the given number of wires with at most bits symbols in all
Abaci(wires, bits) ==
    IF wires = 0 THEN {<<>>}
    ELSE UNION {{<<w>> \o rest : w \in BitSeqs(n), rest \in Abaci(wires - 1, bits - n)} :
                    n \in 0..bits}

RECURSIVE QuotientTuples(_, _)
\* the tuples of the given number of partitions of total size at most size
QuotientTuples(wires, size) ==
    IF wires = 0 THEN {<<>>}
    ELSE UNION {{<<mu>> \o rest : mu \in Partitions(n),
                                  rest \in QuotientTuples(wires - 1, size - n)} :
                    n \in 0..size}

RECURSIVE ChargeTuples(_, _)
\* the tuples of the given number of charges, each of absolute value at most
\* MaxCharge, that sum to total
ChargeTuples(wires, total) ==
    IF wires = 0 THEN (IF total = 0 THEN {<<>>} ELSE {})
    ELSE UNION {{<<c>> \o rest : rest \in ChargeTuples(wires - 1, total - c)} :
                    c \in (-MaxCharge)..MaxCharge}

\* the colour steps tried in a synthesis scenario: -1, 0, and 1 .. r
SynBSet(order) == (-1)..order

Quotients(order) == {None} \cup {PyList(q) : q \in QuotientTuples(order, MaxQSize)}

SynInit(name) ==
    /\ test = name
    /\ r \in 1..MaxSynR
    /\ b \in SynBSet(r)
    /\ p = NotCalled
    /\ Fresh

InitFromAbacus ==
    /\ SynInit("from_G_abacus")
    /\ arg \in {[NoArg EXCEPT !.abacus = a] : a \in Abaci(r, MaxWireBits)}

InitFromCore ==
    /\ SynInit("from_G_core_and_quotient")
    /\ arg \in {[NoArg EXCEPT !.core = c, !.quotient = q] :
                    c \in PartitionsUpTo(MaxCoreSize), q \in Quotients(r)}

InitFromCharges ==
    /\ SynInit("from_G_charges_and_quotient")
    /\ arg \in {[NoArg EXCEPT !.charges = c, !.quotient = q] :
                    c \in ChargeTuples(r, 0), q \in Quotients(r)}

\* p = from_G_abacus(abacus, r, b)
SynFromGAbacus ==
    /\ test = "from_G_abacus" /\ p = NotCalled
    /\ p' = from_G_abacus(arg.abacus, r, b)
    /\ UNCHANGED <<test, r, b, arg, abacus, charges, quotient, core, recon, classical, is_core>>
    /\ UNCHANGED further

\* p = from_G_core_and_quotient(core, quotient, r, b)
SynFromGCoreAndQuotient ==
    /\ test = "from_G_core_and_quotient" /\ p = NotCalled
    /\ p' = from_G_core_and_quotient(arg.core, arg.quotient, r, b)
    /\ UNCHANGED <<test, r, b, arg, abacus, charges, quotient, core, recon, classical, is_core>>
    /\ UNCHANGED further

\* p = from_G_charges_and_quotient(charges, quotient, r, b)
SynFromGChargesAndQuotient ==
    /\ test = "from_G_charges_and_quotient" /\ p = NotCalled
    /\ p' = from_G_charges_and_quotient(arg.charges, arg.quotient, r, b)
    \* the abacus of lines 231 to 252, which line 254 passes to from_G_abacus
    /\ abacus' = abacus_of_charges_and_quotient(arg.charges, arg.quotient, r)
    /\ UNCHANGED <<test, r, b, arg, charges, quotient, core, recon, classical, is_core>>
    /\ UNCHANGED further

NextFromAbacus ==
    \/ SynFromGAbacus
    \/ CallGCharges
    \/ CallGQuotient

NextFromCore ==
    \/ SynFromGCoreAndQuotient
    \/ CallGCore
    \/ CallGQuotient

NextFromCharges ==
    \/ SynFromGChargesAndQuotient
    \/ CallGCharges
    \/ CallGQuotient

SpecFromAbacus == InitFromAbacus /\ [][NextFromAbacus]_vars
SpecFromCore == InitFromCore /\ [][NextFromCore]_vars
SpecFromCharges == InitFromCharges /\ [][NextFromCharges]_vars

\* ------------------------------------------------ the merge loop unfolded
\* A call of from_G_abacus is followed pass by pass: it is entered (the
\* wires are copied, gcd(r, b) is checked and the loop state is set up), the
\* loop body runs once per step, and the call returns when the loop ends.
\* from_G_charges_and_quotient and G_core reach from_G_abacus with the abacus
\* they build.  The supplied arguments include ones the input checks reject.
RECURSIVE StepChargeTuples(_, _)
\* the tuples of the given number of charges, each of absolute value at most
\* MaxStepCharge, that sum to total
StepChargeTuples(wires, total) ==
    IF wires = 0 THEN (IF total = 0 THEN {<<>>} ELSE {})
    ELSE UNION {{<<c>> \o rest : rest \in StepChargeTuples(wires - 1, total - c)} :
                    c \in (-MaxStepCharge)..MaxStepCharge}

\* a list of the given number of empty partitions
EmptyQuotient(wires) == PyList(Repl(<<>>, wires))

\* quotients of the right length: absent, all empty, or one box on one wire
StepQuotients(order) ==
    {None, EmptyQuotient(order)}
        \cup {PyList([k \in 1..order |-> IF k = j THEN <<1>> ELSE <<>>]) : j \in 1..order}

\* charge tuples the input checks reject: one entry short or long, or a sum
\* of -1 or 1
BadCharges(order) ==
    UNION {StepChargeTuples(n, t) : n \in {order - 1, order, order + 1}, t \in {-1, 0, 1}}
        \ StepChargeTuples(order, 0)

\* quotients of the wrong length: one entry short or long
BadQuotients(order) ==
    {EmptyQuotient(order - 1), EmptyQuotient(order + 1),
     PyList(<<<<1>>>> \o Repl(<<>>, order))}

StepArgs(order) ==
    (StepChargeTuples(order, 0) \X (StepQuotients(order) \cup BadQuotients(order)))
        \cup (BadCharges(order) \X {None, EmptyQuotient(order), EmptyQuotient(order + 1)})

StepTests ==
    {"from_G_abacus", "from_G_charges_and_quotient", "from_G_core_and_quotient", "G_core"}

InitSteps ==
    /\ test \in StepTests
    /\ r \in 1..MaxStepR
    /\ b \in SynBSet(r)
    /\ \/ /\ test = "from_G_abacus"
          /\ p = NotCalled
          /\ arg \in {[NoArg EXCEPT !.abacus = a] : a \in Abaci(r, MaxStepBits)}
       \/ /\ test = "from_G_charges_and_quotient"
          /\ p = NotCalled
          /\ arg \in {[NoArg EXCEPT !.charges = cq[1], !.quotient = cq[2]] : cq \in StepArgs(r)}
       \/ /\ test = "from_G_core_and_quotient"
          /\ p = NotCalled
          /\ arg \in {[NoArg EXCEPT !.core = mu, !.quotient = parts] :
                        mu \in PartitionsUpTo(MaxStepCoreSize),
                        parts \in StepQuotients(r) \cup BadQuotients(r)}
       \/ /\ test = "G_core"
          /\ p \in {Ok(mu) : mu \in PartitionsUpTo(MaxStepSize)}
          /\ arg = NoArg
    /\ Fresh

\* the loop state of from_G_abacus when the loop is reached (lines 268 to 277).
\* shared tells whether the deques the loop pops from are the objects that
\* were passed in: line 268 rebinds abacus to new deques, so they are not
EnterLoop_on_the_wires_passed(wires, order) ==
    [at |-> "loop", iterations |-> 0,
     symbols |-> SumSeq([k \in 1..Len(wires) |-> Len(wires[k])]),
     shared |-> TRUE,
     st |-> from_G_abacus_start(wires, order)]

EnterLoop(wires, order) ==
    [at |-> "loop", iterations |-> 0,
     symbols |-> SumSeq([k \in 1..Len(wires) |-> Len(wires[k])]),
     shared |-> FALSE,
     st |-> from_G_abacus_start(wires, order)]

\* from_G_abacus entered with the number of wires never checked against b
from_G_abacus_enter_unchecked(wires, order, step) ==
    [result |-> NotCalled, merge |-> EnterLoop(wires, order)]

\* from_G_abacus up to its loop (lines 268 to 277): the assertion on
\* gcd(r, b) ends the call before the loop state exists
from_G_abacus_enter(wires, order, step) ==
    IF gcd(order, step) # 1
       THEN [result |-> Raise("AssertionError: gcd(r,b) == 1"), merge |-> NoMerge]
    ELSE [result |-> NotCalled, merge |-> EnterLoop(wires, order)]

\* from_G_charges_and_quotient with the sum of the charges checked before
\* their number
from_G_charges_and_quotient_enter_sum_first(tuple, parts, order, step) ==
    LET wires == abacus_of_charges_and_quotient(tuple, parts, order)
    IN IF SumSeq(tuple) # 0
          THEN [result |-> Raise("AssertionError: sum(charges) == 0"), merge |-> NoMerge]
       ELSE IF Returned(wires) THEN from_G_abacus_enter(wires.val, order, step)
       ELSE [result |-> wires, merge |-> NoMerge]

\* from_G_charges_and_quotient up to the loop of from_G_abacus
from_G_charges_and_quotient_enter(tuple, parts, order, step) ==
    LET wires == abacus_of_charges_and_quotient(tuple, parts, order)
    IN IF Returned(wires) THEN from_G_abacus_enter(wires.val, order, step)
       ELSE [result |-> wires, merge |-> NoMerge]

\* G_core up to the loop of from_G_abacus
G_core_enter(mu, order, step) ==
    LET tuple == G_charges(mu, order, step)
    IN IF Returned(tuple) THEN from_G_charges_and_quotient_enter(tuple.val, None, order, step)
       ELSE [result |-> tuple, merge |-> NoMerge]

\* from_G_core_and_quotient up to the loop of from_G_abacus (lines 202 to 207)
from_G_core_and_quotient_enter(mu, parts, order, step) ==
    IF ~ is_G_core(mu, order, step)
       THEN [result |-> Raise("AssertionError: core.is_G_core(r, b)"), merge |-> NoMerge]
    ELSE IF parts.cls = "NoneType" THEN [result |-> Ok(mu), merge |-> NoMerge]
    ELSE LET tuple == G_charges(mu, order, step)
         IN IF Returned(tuple)
               THEN from_G_charges_and_quotient_enter(tuple.val, parts, order, step)
            ELSE [result |-> tuple, merge |-> NoMerge]

\* from_G_abacus(abacus, r, b) is called
EnterFromGAbacus ==
    /\ test = "from_G_abacus" /\ p = NotCalled /\ merge = NoMerge
    /\ LET entered == from_G_abacus_enter(arg.abacus, r, b)
       IN p' = entered.result /\ merge' = entered.merge
    /\ UNCHANGED <<test, r, b, arg, abacus, charges, quotient, core, recon, classical, is_core>>
    /\ UNCHANGED <<classical_q, colours, vacuum, core_abacus, core_charges, build, shifted>>

\* from_G_charges_and_quotient(charges, quotient, r, b) is called
EnterFromGChargesAndQuotient ==
    /\ test = "from_G_charges_and_quotient" /\ p = NotCalled /\ merge = NoMerge
    /\ LET entered == from_G_charges_and_quotient_enter(arg.charges, arg.quotient, r, b)
       IN p' = entered.result /\ merge' = entered.merge
    /\ UNCHANGED <<test, r, b, arg, abacus, charges, quotient, core, recon, classical, is_core>>
    /\ UNCHANGED <<classical_q, colours, vacuum, core_abacus, core_charges, build, shifted>>

\* from_G_core_and_quotient(core, quotient, r, b) is called
EnterFromGCoreAndQuotient ==
    /\ test = "from_G_core_and_quotient" /\ p = NotCalled /\ merge = NoMerge
    /\ LET entered == from_G_core_and_quotient_enter(arg.core, arg.quotient, r, b)
       IN p' = entered.result /\ merge' = entered.merge
    /\ UNCHANGED <<test, r, b, arg, abacus, charges, quotient, core, recon, classical, is_core>>
    /\ UNCHANGED <<classical_q, colours, vacuum, core_abacus, core_charges, build, shifted>>

\* p.G_core(r, b) is called
EnterGCore ==
    /\ test = "G_core" /\ Returned(p) /\ core = NotCalled /\ merge = NoMerge
    /\ LET entered == G_core_enter(p.val, r, b)
       IN core' = entered.result /\ merge' = entered.merge
    /\ UNCHANGED <<test, p, r, b, arg, abacus, charges, quotient, recon, classical, is_core>>
    /\ UNCHANGED <<classical_q, colours, vacuum, core_abacus, core_charges, build, shifted>>

\* one pass of the loop of from_G_abacus (lines 278 to 292)
MergeStep ==
    /\ merge.at = "loop"
    /\ merge.st.north_steps_read < merge.st.total_north_steps
    /\ merge.iterations < MaxIterations
    /\ merge' = [merge EXCEPT !.iterations = @ + 1, !.st = from_G_abacus_step(@, r, b)]
    /\ arg' = IF merge.shared /\ test = "from_G_abacus"
                 THEN [arg EXCEPT !.abacus = merge'.st.abacus]
              ELSE arg
    /\ UNCHANGED <<test, p, r, b, abacus, charges, quotient, core, recon, classical, is_core>>
    /\ UNCHANGED <<classical_q, colours, vacuum, core_abacus, core_charges, build, shifted>>

\* the loop has ended: the path is decoded and returned (lines 295 to 297)
MergeReturn ==
    /\ merge.at = "loop"
    /\ ~ (merge.st.north_steps_read < merge.st.total_north_steps)
    /\ merge' = [merge EXCEPT !.at = "returned"]
    /\ LET mu == Ok(from_zero_one(invert_zero_one(merge.st.path_seq)))
       IN /\ core' = IF test = "G_core" THEN mu ELSE core
          /\ recon' = IF test = "test_from_G_abacus_unfolded" THEN mu ELSE recon
          /\ p' = IF test \in {"G_core", "test_from_G_abacus_unfolded"} THEN p ELSE mu
    /\ UNCHANGED <<test, r, b, arg, abacus, charges, quotient, classical, is_core>>
    /\ UNCHANGED <<classical_q, colours, vacuum, core_abacus, core_charges, build, shifted>>

NextSteps ==
    \/ EnterFromGAbacus
    \/ EnterFromGChargesAndQuotient
    \/ EnterFromGCoreAndQuotient
    \/ EnterGCore
    \/ MergeStep
    \/ MergeReturn
    \/ CallGCharges
    \/ CallGQuotient

SpecSteps == InitSteps /\ [][NextSteps]_vars

\* from_G_abacus alone, on every abacus of r wires
InitMerge ==
    /\ test = "from_G_abacus"
    /\ r \in 1..MaxMergeR
    /\ b \in SynBSet(r)
    /\ p = NotCalled
    /\ arg \in {[NoArg EXCEPT !.abacus = a] : a \in Abaci(r, MaxMergeBits)}
    /\ Fresh

NextMerge ==
    \/ EnterFromGAbacus
    \/ MergeStep
    \/ MergeReturn

SpecMerge == InitMerge /\ [][NextMerge]_vars

\* the loop is sequential code: a pass that can run does run
SpecMergeFair == SpecMerge /\ WF_vars(MergeStep) /\ WF_vars(MergeReturn)

\* ------------------------------------------- build and merge, both unfolded
\* test_from_G_abacus followed symbol by symbol: p.G_abacus(r, b) deals the
\* path sequence onto the wires, then from_G_abacus merges them again.
\* build.wires keeps the wire each symbol was put on.
InitWalk ==
    \/ /\ test = "test_from_G_abacus_unfolded"
       /\ r \in 1..MaxWalkR
       /\ b \in BSet(r)
       /\ p \in {Ok(mu) : mu \in PartitionsUpTo(MaxWalkSize)}
       /\ arg = NoArg
       /\ Fresh
    \/ InitMerge

\* G_abacus up to its loop (lines 106 to 111)
BuildEnter ==
    /\ test = "test_from_G_abacus_unfolded" /\ Returned(p) /\ build = NoBuild
    /\ build' = [at |-> "loop", seq |-> invert_zero_one(zero_one_sequence(p.val)),
                 wires |-> <<>>, st |-> G_abacus_start(p.val, r)]
    /\ UNCHANGED <<test, p, r, b, arg, abacus, charges, quotient, core, recon, classical, is_core>>
    /\ UNCHANGED <<classical_q, colours, vacuum, core_abacus, core_charges, merge, shifted>>

\* one pass of the loop of G_abacus (lines 112 to 116)
BuildStep ==
    /\ build.at = "loop" /\ Len(build.wires) < Len(build.seq)
    /\ build' = [build EXCEPT
                    !.wires = Append(@, build.st.wire_num),
                    !.st = G_abacus_step(@, build.seq[Len(build.wires) + 1], r, b)]
    /\ UNCHANGED <<test, p, r, b, arg, abacus, charges, quotient, core, recon, classical, is_core>>
    /\ UNCHANGED <<classical_q, colours, vacuum, core_abacus, core_charges, merge, shifted>>

\* the loop of G_abacus has ended: the abacus is returned (line 117)
BuildReturn ==
    /\ build.at = "loop" /\ Len(build.wires) = Len(build.seq)
    /\ build' = [build EXCEPT !.at = "returned"]
    /\ abacus' = Ok(build.st.abacus)
    /\ UNCHANGED <<test, p, r, b, arg, charges, quotient, core, recon, classical, is_core>>
    /\ UNCHANGED <<classical_q, colours, vacuum, core_abacus, core_charges, merge, shifted>>

\* from_G_abacus(p.G_abacus(r, b), r, b) is called
EnterFromGAbacusOfP ==
    /\ test = "test_from_G_abacus_unfolded"
    /\ Returned(abacus) /\ recon = NotCalled /\ merge = NoMerge
    /\ LET entered == from_G_abacus_enter(abacus.val, r, b)
       IN recon' = entered.result /\ merge' = entered.merge
    /\ UNCHANGED <<test, p, r, b, arg, abacus, charges, quotient, core, classical, is_core>>
    /\ UNCHANGED <<classical_q, colours, vacuum, core_abacus, core_charges, build, shifted>>

NextWalk ==
    \/ BuildEnter
    \/ BuildStep
    \/ BuildReturn
    \/ EnterFromGAbacusOfP
    \/ EnterFromGAbacus
    \/ MergeStep
    \/ MergeReturn

SpecWalk == InitWalk /\ [][NextWalk]_vars

\* ------------------------------------------------- b replaced by b + k*r
ShiftTests ==
    {"analysis modulo r", "from_G_abacus modulo r", "from_G_charges_and_quotient modulo r"}

InitShift ==
    /\ test \in ShiftTests
    /\ r \in 1..MaxShiftR
    /\ b \in BSet(r)
    /\ \/ /\ test = "analysis modulo r"
          /\ p \in {Ok(mu) : mu \in PartitionsUpTo(MaxShiftSize)}
          /\ arg = NoArg
       \/ /\ test = "from_G_abacus modulo r"
          /\ r <= MaxShiftWires
          /\ p = NotCalled
          /\ arg \in {[NoArg EXCEPT !.abacus = a] : a \in Abaci(r, MaxShiftBits)}
       \/ /\ test = "from_G_charges_and_quotient modulo r"
          /\ r <= MaxShiftWires
          /\ p = NotCalled
          /\ arg \in {[NoArg EXCEPT !.charges = cq[1], !.quotient = cq[2]] : cq \in StepArgs(r)}
    /\ Fresh

\* what every method and function that takes b gives when it is called with
\* the value step for b
ResultsWith(step) ==
    IF test = "analysis modulo r"
       THEN [NoResults EXCEPT !.colours = G_colour_count(p.val, r, step),
                              !.is_core = is_G_core(p.val, r, step),
                              !.abacus = G_abacus(p.val, r, step),
                              !.charges = G_charges(p.val, r, step),
                              !.quotient = G_quotient(p.val, r, step, FALSE),
                              !.quotient_swap_xy = G_quotient(p.val, r, step, TRUE),
                              !.core = G_core(p.val, r, step)]
    ELSE IF test = "from_G_abacus modulo r"
       THEN [NoResults EXCEPT !.from_abacus = from_G_abacus(arg.abacus, r, step)]
    ELSE [NoResults EXCEPT !.from_charges =
              from_G_charges_and_quotient(arg.charges, arg.quotient, r, step)]

\* the calls are made with b
CallWithB ==
    /\ test \in ShiftTests /\ ~ shifted.at_b
    /\ shifted' = [shifted EXCEPT !.at_b = TRUE, !.with_b = ResultsWith(b)]
    /\ UNCHANGED <<test, p, r, b, arg, abacus, charges, quotient, core, recon, classical, is_core>>
    /\ UNCHANGED <<classical_q, colours, vacuum, core_abacus, core_charges, merge, build>>

\* the calls are made with b + k*r, for some k other than 0
CallWithShiftedB ==
    /\ test \in ShiftTests /\ ~ shifted.at_shift
    /\ \E k \in ((-MaxShift)..MaxShift) \ {0} :
           shifted' = [shifted EXCEPT !.at_shift = TRUE, !.k = k,
                                      !.with_shift = ResultsWith(b + k * r)]
    /\ UNCHANGED <<test, p, r, b, arg, abacus, charges, quotient, core, recon, classical, is_core>>
    /\ UNCHANGED <<classical_q, colours, vacuum, core_abacus, core_charges, merge, build>>

NextShift ==
    \/ CallWithB
    \/ CallWithShiftedB

SpecShift == InitShift /\ [][NextShift]_vars

\* --------------------------------------------------------------- the claims
\* the precondition of the reconstructions: r and b are coprime
Coprime == gcd(r, b) = 1

\* Python's == between two quotient values: a Partition is equal to no list
\* of partitions, and tuples and lists are compared item by item
QuotientEq(x, y) ==
    /\ Len(x.items) = Len(y.items)
    /\ (x.cls = "Partition") = (y.cls = "Partition")
    /\ x.items = y.items

\* the case C3 is about: a core and an r-tuple are supplied
SuppliedCoreAndQuotient ==
    /\ test = "from_G_core_and_quotient" /\ Coprime
    /\ is_G_core(arg.core, r, b) /\ arg.quotient # None

\* the partitions the wires of the supplied abacus decode to
DecodedWires == [k \in 1..r |-> from_zero_one(invert_zero_one(arg.abacus[k]))]

\* C1: for coprime r and b, from_G_abacus applied to p.G_abacus(r, b) returns p.
C1_RoundTripAbacus ==
    (test = "test_from_G_abacus" /\ recon # NotCalled /\ Coprime)
        => (Returned(recon) /\ recon.val = p.val)

C1_Witness ==
    /\ test = "test_from_G_abacus" /\ Returned(recon) /\ Coprime
    /\ r = 3 /\ b = -1 /\ p.val = <<3, 1, 1>> /\ recon.val = <<3, 1, 1>>
    /\ \A k \in 1..r : abacus.val[k] # <<>>

\* C2: for coprime r and b, from_G_core_and_quotient applied to p.G_core(r, b)
\* and p.G_quotient(r, b) returns p, and no error is signalled on the way.
C2_RoundTripCoreQuotient ==
    (test = "test_from_G_core_and_quotient" /\ Coprime)
        => /\ core # NotCalled => Returned(core)
           /\ recon # NotCalled => (Returned(recon) /\ recon.val = p.val)

\* the round trip of C2 for the group orders above 1
RoundTripCoreQuotientAboveOne ==
    (test = "test_from_G_core_and_quotient" /\ Coprime /\ r > 1)
        => /\ core # NotCalled => Returned(core)
           /\ recon # NotCalled => (Returned(recon) /\ recon.val = p.val)

\* C3: for coprime r and b, an (r,b)-core c and an r-tuple q of partitions,
\* mu = from_G_core_and_quotient(c, q, r, b) has mu.G_core(r, b) == c and
\* mu.G_quotient(r, b) == q.
C3_SynthesisInverted ==
    SuppliedCoreAndQuotient
        => /\ p # NotCalled => Returned(p)
           /\ core # NotCalled => (Returned(core) /\ core.val = arg.core)
           /\ quotient # NoQuotient => QuotientEq(quotient.val, arg.quotient)

\* the statement of C3 for the group orders above 1
SynthesisInvertedAboveOne ==
    (SuppliedCoreAndQuotient /\ r > 1)
        => /\ p # NotCalled => Returned(p)
           /\ core # NotCalled => (Returned(core) /\ core.val = arg.core)
           /\ quotient # NoQuotient => QuotientEq(quotient.val, arg.quotient)

\* C4: for coprime r and b and an abacus of r binary wires,
\* mu = from_G_abacus(abacus, r, b) has for mu.G_quotient(r, b) the tuple of
\* the partitions the wires decode to, and for mu.G_charges(r, b) the charges
\* that the formula of G_charges gives on the supplied wires.
C4_AbacusIsomorphic ==
    (test = "from_G_abacus" /\ Coprime)
        => /\ p # NotCalled => Returned(p)
           /\ charges # NotCalled => charges = charges_of_abacus(arg.abacus, r)
           /\ quotient # NoQuotient => QuotientEq(quotient.val, PyList(DecodedWires))

\* the statement of C4 for the group orders above 1
AbacusIsomorphicAboveOne ==
    (test = "from_G_abacus" /\ Coprime /\ r > 1)
        => /\ p # NotCalled => Returned(p)
           /\ charges # NotCalled => charges = charges_of_abacus(arg.abacus, r)
           /\ quotient # NoQuotient => QuotientEq(quotient.val, PyList(DecodedWires))

\* C5: for coprime r and b, from_G_charges_and_quotient applied to
\* p.G_charges(r, b) and p.G_quotient(r, b) returns p.
C5_RoundTripChargesQuotient ==
    (test = "test_from_G_charges_and_quotient" /\ recon # NotCalled /\ Coprime)
        => (Returned(recon) /\ recon.val = p.val)

\* the round trip of C5 for the group orders above 1
RoundTripChargesQuotientAboveOne ==
    (test = "test_from_G_charges_and_quotient" /\ recon # NotCalled /\ Coprime /\ r > 1)
        => (Returned(recon) /\ recon.val = p.val)

\* C6: for coprime r and b, r charges that sum to zero and a quotient that
\* is absent or an r-tuple of partitions,
\* mu = from_G_charges_and_quotient(charges, quotient, r, b) has
\* mu.G_charges(r, b) == charges, and mu.G_quotient(r, b) is the supplied
\* quotient, or r empty partitions when it was absent.
C6_ChargesReproduced ==
    (test = "from_G_charges_and_quotient" /\ Coprime)
        => /\ p # NotCalled => Returned(p)
           /\ charges # NotCalled => charges = Ok(arg.charges)
           /\ quotient # NoQuotient =>
                QuotientEq(quotient.val,
                           IF arg.quotient = None THEN PyList(Repl(<<>>, r))
                           ELSE arg.quotient)

\* the statement of C6 for the group orders above 1
ChargesReproducedAboveOne ==
    (test = "from_G_charges_and_quotient" /\ Coprime /\ r > 1)
        => /\ p # NotCalled => Returned(p)
           /\ charges # NotCalled => charges = Ok(arg.charges)
           /\ quotient # NoQuotient =>
                QuotientEq(quotient.val,
                           IF arg.quotient = None THEN PyList(Repl(<<>>, r))
                           ELSE arg.quotient)

\* C7: for every r >= 1 and every integer b, coprime to r or not, G_charges
\* passes both of its assertions and returns r integers that sum to 0.
C7_ChargeSum ==
    (charges # NotCalled)
        => /\ Returned(charges)
           /\ Len(charges.val) = r
           /\ SumSeq(charges.val) = 0

C7_Witness ==
    /\ Returned(charges) /\ ~ Coprime /\ r = 4 /\ b = 2
    /\ \E k \in 1..r : charges.val[k] > 0

\* C8: for coprime r and b, the G-core of p is an (r,b)-core: is_G_core is
\* true of p.G_core(r, b).
C8_CoreIsCore ==
    (is_core.err = "none" /\ Coprime) => is_core.of_core

C8_Witness ==
    /\ is_core.err = "none" /\ Coprime /\ is_core.of_core
    /\ core.val # <<>> /\ core.val # p.val /\ r >= 3 /\ b # -1 /\ b % r # r - 1

\* C9: for coprime r and b, is_G_core is true of p exactly if p.G_core(r, b)
\* is p.
C9_CoreIffFixed ==
    (is_core.err = "none" /\ Coprime) => (is_core.of_p <=> (core.val = p.val))

C9_Witness ==
    /\ is_core.err = "none" /\ Coprime /\ is_core.of_p /\ core.val = p.val
    /\ Len(p.val) >= 2 /\ r >= 3 /\ b % r \notin {1, r - 1}

\* C10: with b = r - 1, and with the default b = -1, p.G_core(r, b) is the
\* classical r-core of p.
C10_ClassicalCore ==
    (test = "test_special_core" /\ b \in {-1, r - 1} /\ classical # NotCalled)
        => (Returned(core) /\ core.val = classical.val)

C10_Witness ==
    /\ test = "test_special_core" /\ b = -1 /\ r = 3 /\ Returned(classical)
    /\ core.val = classical.val /\ classical.val # <<>> /\ classical.val # p.val

\* C11: with label_swap_xy=True and the colour step -1 (or r - 1),
\* p.G_quotient(r, b, label_swap_xy=True) is equal to p.quotient(r), the
\* classical r-quotient of p, component by component.
C11_ClassicalQuotient ==
    (test = "test_special_quotient" /\ classical_q # NoQuotient)
        => QuotientEq(quotient.val, classical_q.val)

C11_Witness ==
    /\ test = "test_special_quotient" /\ b = -1 /\ r = 3 /\ classical_q # NoQuotient
    /\ QuotientEq(quotient.val, classical_q.val)
    /\ quotient.val.items[2] # quotient.val.items[3]
    /\ quotient.val.items[1] # <<>>

\* C12: from_G_core_and_quotient called with a core that is not an
\* (r,b)-core fails the assertion core.is_G_core(r, b) and returns nothing,
\* whatever the quotient is, the absent quotient included.
C12_NotACore ==
    (test = "from_G_core_and_quotient" /\ p # NotCalled /\ ~ is_G_core(arg.core, r, b))
        => p = Raise("AssertionError: core.is_G_core(r, b)")

C12_Witness ==
    /\ test = "from_G_core_and_quotient" /\ ~ is_G_core(arg.core, r, b)
    /\ arg.quotient = None /\ Coprime /\ r = 3
    /\ p = Raise("AssertionError: core.is_G_core(r, b)")

\* the supplied charges and quotient pass the input checks
ValidChargesAndQuotient ==
    /\ Len(arg.charges) = r /\ SumSeq(arg.charges) = 0
    /\ arg.quotient = None \/ Len(arg.quotient.items) = r

C14_ChargeImbalance ==
    (test = "from_G_charges_and_quotient" /\ Len(arg.charges) = r /\ SumSeq(arg.charges) # 0)
        => /\ merge = NoMerge
           /\ p # NotCalled => p = Raise("AssertionError: sum(charges) == 0")

C14_Witness ==
    /\ test = "from_G_charges_and_quotient" /\ Coprime /\ r = 3
    /\ arg.charges = <<1, 0, 0>> /\ arg.quotient = EmptyQuotient(r)
    /\ p = Raise("AssertionError: sum(charges) == 0") /\ merge = NoMerge

ShapeMismatchOfQuotient ==
    /\ test = "from_G_charges_and_quotient" /\ Coprime /\ r = 2
    /\ arg.charges = <<1, -1>> /\ arg.quotient = EmptyQuotient(r + 1)
    /\ p = Raise("AssertionError: len(quotient) == r")

\* the loop of from_G_abacus has read every 1 of the abacus
LoopEnded == merge.st.north_steps_read = merge.st.total_north_steps

\* C18: for coprime r and b (the loop is reached for no others) and every
\* abacus of r binary wires, the loop of from_G_abacus reaches
\* north_steps_read == total_north_steps, and it never makes more than
\* r * (number of symbols on the wires) passes.
C18_MergeTerminates ==
    /\ [](merge.at # "not called" => merge.iterations <= r * merge.symbols)
    /\ (merge.at = "loop") ~> (merge.at = "returned" /\ LoopEnded)

\* a run that takes all of the r * symbols passes
C18_Witness ==
    /\ test = "from_G_abacus" /\ merge.at = "returned" /\ LoopEnded
    /\ r = 3 /\ merge.symbols = 2 /\ merge.iterations = r * merge.symbols

\* MaxIterations cuts no run short
IterationsFollowed == merge.iterations < MaxIterations

\* C16: for every partition p, r >= 1 and integer b, negative ones included,
\* every colour of p.G_colour_tableau(r, b) is one of 0 .. r-1, and
\* p.G_colour_count(r, b) passes its assertion and returns r counts that sum
\* to the size of p.
C16_ColourCount ==
    (test = "G_colour_count") =>
        /\ \A i \in 1..Len(p.val) : \A j \in 1..p.val[i] :
               G_colour_tableau(p.val, r, b)[i][j] \in 0..(r - 1)
        /\ colours # NotCalled =>
               /\ Returned(colours)
               /\ Len(colours.val) = r
               /\ SumSeq(colours.val) = SumSeq(p.val)

C16_Witness ==
    /\ test = "G_colour_count" /\ Returned(colours) /\ b = -2 /\ r = 5
    /\ p.val = <<4, 2, 1>> /\ colours.val = <<1, 2, 1, 1, 2>>

\* what C17 says of the empty partition: charges, quotient, core, and a
\* merge loop that makes no pass
EmptyPartitionAnalysed ==
    /\ charges # NotCalled => charges = Ok(Repl(0, r))
    /\ quotient # NoQuotient => QuotientEq(quotient.val, EmptyQuotient(r))
    /\ core # NotCalled => core = Ok(<<>>)
    /\ merge.iterations = 0

\* C17: for the empty partition and coprime r and b, G_charges is r zeros,
\* G_quotient is the r-tuple of empty partitions, G_core is the empty
\* partition, and the loop of from_G_abacus makes no pass.
C17_EmptyPartition ==
    (test = "G_core" /\ p.val = <<>> /\ Coprime) => EmptyPartitionAnalysed

\* the statement of C17 for the group orders above 1
EmptyPartitionAboveOne ==
    (test = "G_core" /\ p.val = <<>> /\ Coprime /\ r > 1) => EmptyPartitionAnalysed

\* the example of C17, r = 3 and b = 1, after the three calls
EmptyPartitionExample ==
    /\ test = "G_core" /\ p.val = <<>> /\ r = 3 /\ b = 1
    /\ charges = Ok(<<0, 0, 0>>) /\ core = Ok(<<>>) /\ merge.at = "returned"
    /\ quotient.val = [cls |-> "PartitionTuple", items |-> <<<<>>, <<>>, <<>>>>]

\* C19: for every T >= 0 and r >= 1, expected[i] of G_charges is the number
\* of 1s on wire i when the walk of G_abacus is run on T north steps only;
\* wire 0 gets no more than T // r, two entries differ by at most 1, and the
\* entries sum to T.
C19_GroundState ==
    (vacuum # NoVacuum) =>
        LET expected == expected_north_steps(vacuum.total_north_steps, r)
        IN /\ Len(vacuum.val) = r
           /\ \A k \in 1..r : expected[k] = SumSeq(vacuum.val[k])
           /\ expected[1] = vacuum.total_north_steps \div r
           /\ \A k \in 1..r : \A l \in 1..r : Abs(expected[k] - expected[l]) <= 1
           /\ SumSeq(expected) = vacuum.total_north_steps

C19_Witness ==
    /\ Returned(vacuum) /\ r = 5 /\ vacuum.total_north_steps = 13
    /\ vacuum.val = <<<<1, 1>>, <<1, 1, 1>>, <<1, 1, 1>>, <<1, 1, 1>>, <<1, 1>>>>

\* C20: for coprime r and b, the G-core of p has the charges of p, and every
\* wire of its abacus decodes to the empty partition.
C20_CoreKeepsCharges ==
    (test = "analysis_of_G_core" /\ Coprime) =>
        /\ core # NotCalled => Returned(core)
        /\ (charges # NotCalled /\ core_charges # NotCalled) => core_charges = charges
        /\ core_abacus # NotCalled =>
              /\ Len(core_abacus.val) = r
              /\ \A k \in 1..r : from_zero_one(invert_zero_one(core_abacus.val[k])) = <<>>

C20_Witness ==
    /\ test = "analysis_of_G_core" /\ Coprime /\ r = 3 /\ b = 1
    /\ Returned(charges) /\ core_charges = charges /\ charges.val # <<0, 0, 0>>
    /\ core.val # p.val /\ core.val # <<>>
    /\ \A k \in 1..r : from_zero_one(invert_zero_one(core_abacus.val[k])) = <<>>
    /\ \E k \in 1..r : core_abacus.val[k] # <<>>

\* the abacus from_G_abacus was called with
MergedAbacus == IF test = "from_G_abacus" THEN arg.abacus ELSE abacus.val

\* both walks are on one of the wires 0 .. r-1
WireInRange ==
    /\ build.st.wire_num \in 0..(r - 1)
    /\ merge.st.wire_num \in 0..(r - 1)

\* both walks start on the wire (total number of 1s) % r
StartWire ==
    /\ (build.at = "loop" /\ build.wires = <<>>)
          => build.st.wire_num = SumSeq(build.seq) % r
    /\ (merge.at = "loop" /\ merge.iterations = 0)
          => merge.st.wire_num
                = SumSeq([k \in 1..Len(MergedAbacus) |-> SumSeq(MergedAbacus[k])]) % r

\* the wire after a symbol: + b after a 0, - 1 after a 1, reduced modulo r
NextWire(wire, code) == IF code = 0 THEN (wire + b) % r ELSE (wire - 1) % r

\* a pass of either loop moves its walk by the rule
WalkMoves ==
    /\ (build'.wires # build.wires)
          => build'.st.wire_num
                = NextWire(build.st.wire_num, build.seq[Len(build.wires) + 1])
    /\ (merge'.iterations # merge.iterations)
          => merge'.st.wire_num
                = NextWire(merge.st.wire_num, merge'.st.path_seq[Len(merge'.st.path_seq)])

\* C21: in G_abacus and in the loop of from_G_abacus the walk starts on the
\* wire (total number of 1s) % r; after a 0 the wire index becomes
\* (wire + b) % r and after a 1 it becomes (wire - 1) % r; and the index is
\* one of 0 .. r-1 in every state, for negative b too.
C21_SteppingRule ==
    /\ []WireInRange
    /\ []StartWire
    /\ [][WalkMoves]_vars

\* with b = -2 the build has stepped from wire 0 or 1 down past wire 0, and
\* the merge has ended
C21_Witness ==
    /\ test = "test_from_G_abacus_unfolded" /\ b = -2 /\ r = 3 /\ merge.at = "returned"
    /\ \E i \in 1..(Len(build.wires) - 1) :
          /\ build.seq[i] = 0 /\ build.wires[i] = 1 /\ build.wires[i + 1] = 2

\* C22: when from_G_abacus is run on p.G_abacus(r, b) with the same r and b,
\* coprime, its pass k is on the wire G_abacus was on at its step k and pops
\* the symbol G_abacus put there; it never finds the wire it is on empty;
\* and when the loop stops every wire is empty and the symbols read are the
\* path sequence of p.
C22_MergeReplaysBuild ==
    (test = "test_from_G_abacus_unfolded" /\ merge.at # "not called") =>
        /\ merge.iterations <= Len(build.seq)
        /\ merge.st.path_seq = SubSeq(build.seq, 1, merge.iterations)
        /\ ~ LoopEnded =>
              /\ merge.st.wire_num = build.wires[merge.iterations + 1]
              /\ merge.st.abacus[merge.st.wire_num + 1] # <<>>
              /\ merge.st.abacus[merge.st.wire_num + 1][1] = build.seq[merge.iterations + 1]
        /\ LoopEnded =>
              /\ \A k \in 1..r : merge.st.abacus[k] = <<>>
              /\ merge.st.path_seq = invert_zero_one(zero_one_sequence(p.val))

C22_Witness ==
    /\ test = "test_from_G_abacus_unfolded" /\ merge.at = "returned" /\ LoopEnded
    /\ r = 3 /\ b = 2 /\ p.val = <<3, 2, 1>> /\ recon = p
    /\ merge.iterations = 6
    /\ {build.wires[i] : i \in 1..Len(build.wires)} = 0..(r - 1)

\* C23: no step of from_G_abacus, from_G_charges_and_quotient or
\* from_G_core_and_quotient changes what the caller supplied: the abacus, the
\* charges, the quotient and the core are the same after every step, whether
\* the call goes on to return or ends in a failed check, and G_core leaves
\* its partition alone
C23_Purity ==
    [][/\ arg' = arg
       /\ (test = "G_core" => p' = p)]_vars

\* from_G_abacus has returned a partition after emptying every wire of its own
\* copy, and the caller's three wires still hold their four symbols
C23_Witness ==
    /\ test = "from_G_abacus" /\ merge.at = "returned" /\ Returned(p)
    /\ r = 3 /\ Len(arg.abacus) = 3
    /\ \A k \in 1..r : merge.st.abacus[k] = <<>>
    /\ SumSeq([k \in 1..r |-> Len(arg.abacus[k])]) = 4
    /\ merge.iterations >= 4

\* C24: b matters only modulo r. Called with b + k*r in place of b, the
\* methods G_colour_count, is_G_core, G_abacus, G_charges, G_quotient (with
\* and without the swap of x and y) and G_core, and the functions
\* from_G_abacus and from_G_charges_and_quotient, give the same value or the
\* same failure as with b
C24_BModuloR ==
    (shifted.at_b /\ shifted.at_shift) => shifted.with_shift = shifted.with_b

\* the special case named in the text: b = -1 and b + r = r - 1 have given
\* the same analysis of (4, 1, 1), which is not a core for r = 3
C24_Witness ==
    /\ test = "analysis modulo r" /\ shifted.at_b /\ shifted.at_shift
    /\ r = 3 /\ b = -1 /\ shifted.k = 1 /\ p.val = <<4, 1, 1>>
    /\ Returned(shifted.with_shift.core) /\ shifted.with_shift.core.val # p.val
    /\ ~ shifted.with_shift.is_core
    /\ shifted.with_shift.abacus = G_abacus(p.val, r, r - 1)

\* the number of 1s in a word
north_steps(word) == SumSeq(word)

\* C25: for charges that sum to zero and a quotient that is absent or has r
\* partitions, from_G_charges_and_quotient passes the output checks and hands
\* from_G_abacus an abacus of r wires; wire i is c_max - charges[i] >= 0
\* symbols 1 followed by a word of n 1s and n 0s that decodes to quotient[i]
\* (to the empty partition when the quotient is absent, where n = 0), n being
\* the largest half-length of the shortest Dyck words of the quotient; the
\* abacus has r*(2n + c_max) symbols, r*(n + c_max) of them 1s
C25_SynthesizedAbacus ==
    (test = "from_G_charges_and_quotient" /\ p # NotCalled) =>
        LET absent == arg.quotient = None
            part(i) == IF absent THEN <<>> ELSE arg.quotient.items[i]
            n == MaxSeq([i \in 1..r |-> dyck_len(part(i)) \div 2])
            c_max == MaxSeq(arg.charges)
            excess(i) == c_max - arg.charges[i]
        IN /\ Returned(abacus)
           /\ Len(abacus.val) = r
           /\ \A i \in 1..r :
                 LET wire == abacus.val[i]
                     word == SubSeq(wire, excess(i) + 1, Len(wire))
                 IN /\ excess(i) >= 0
                    /\ Len(wire) = excess(i) + 2 * n
                    /\ SubSeq(wire, 1, excess(i)) = Repl(1, excess(i))
                    /\ north_steps(word) = n
                    /\ from_zero_one(invert_zero_one(word)) = part(i)
           /\ SumSeq([i \in 1..r |-> Len(abacus.val[i])]) = r * (2 * n + c_max)
           /\ SumSeq([i \in 1..r |-> north_steps(abacus.val[i])]) = r * (n + c_max)

\* charges (1, 0, -1) and quotient ((2), (), ()): n = 3, c_max = 1, and the
\* wires carry 0, 1 and 2 excess 1s before their words
C25_Witness ==
    /\ test = "from_G_charges_and_quotient" /\ Returned(p)
    /\ r = 3
    /\ arg.charges = <<1, 0, -1>>
    /\ arg.quotient = PyList(<<<<2>>, <<>>, <<>>>>)
    /\ abacus = Ok(<<<<1, 1, 0, 0, 1, 0>>,
                     <<1, 1, 1, 1, 0, 0, 0>>,
                     <<1, 1, 1, 1, 1, 0, 0, 0>>>>)

====
